---- MODULE Spec2Model ----
(***************************************************************************)
(* Model of the AllFamilyAI question-generation use cases                  *)
(* (ai_server/app/application/use_cases) running against the ChromaDB      *)
(* vector store adapter (ai_server/app/infrastructure/vector).             *)
(*                                                                         *)
(* Texts are sequences of tokens, similarities are hundredths (0.9 = 90),  *)
(* answered_at is a day of January 2026 plus a flag telling whether the    *)
(* datetime carries a UTC offset.                                          *)
(***************************************************************************)
EXTENDS Integers, Sequences, FiniteSets, TLC

\* ------------------------------------------------------------------------
\* Bounds of the model
\* ------------------------------------------------------------------------

\* Storing requests are accepted while the collection holds fewer vectors.
MaxDocs == 2

\* Direct store calls on the port are made while the clock is below.
MaxStores == 3

\* While requests run concurrently, datetime.now() advances up to this
\* millisecond.
MaxClock == 2

\* Integers handed to QuestionLevel lie between -MaxLevelInput and
\* MaxLevelInput.
MaxLevelInput == 6

\* ------------------------------------------------------------------------
\* Program constants
\* ------------------------------------------------------------------------

MAX_REGENERATION == 3

\* 0.9, in hundredths
SIMILARITY_THRESHOLD == 90

PERSONAL_TOP_K == 5

FAMILY_TOP_K == 10

LIMIT_PER_MEMBER == 3

HTTP_ERROR == 500

\* ------------------------------------------------------------------------
\* Input domains
\* ------------------------------------------------------------------------

\* Placeholder of an execution that has no base QA.
NoDoc ==
    [family_id |-> "", member_id |-> "", role_label |-> <<>>, question |-> <<>>,
     answer |-> <<>>, answered_at |-> [t |-> 1, aware |-> FALSE]]

NoOutput == [none |-> TRUE]

NoInput == [none |-> TRUE]

NoResponse == [status |-> 0]

\* No call has been made on the port.
NoCall == [op |-> "none"]

NoResult == [raised |-> FALSE]

\* No operation is running concurrently.
NoProcs == <<>>

\* An ISO-8601 string: the day of January 2026 and the offset suffix
\* ("": none, "Z", "+00:00").
Iso(day, offset) == [day |-> day, offset |-> offset]

\* Request bodies of POST questions/generate/personal and .../family.
\* Member M1 answers in two families under two role labels, family F1 has
\* two members, and timestamps occur with "Z", with an offset and without.
RagRequests ==
    { [familyId |-> "F1", memberId |-> "M1", roleLabel |-> <<"daughter">>,
       baseQuestion |-> <<"qa">>, baseAnswer |-> <<"a1">>, answeredAt |-> Iso(2, "Z")],
      [familyId |-> "F1", memberId |-> "M2", roleLabel |-> <<"dad">>,
       baseQuestion |-> <<"qb">>, baseAnswer |-> <<>>, answeredAt |-> Iso(1, "+00:00")],
      [familyId |-> "F2", memberId |-> "M1", roleLabel |-> <<"first", " ", "daughter">>,
       baseQuestion |-> <<"qb">>, baseAnswer |-> <<"a2">>, answeredAt |-> Iso(3, "")] }

\* Request bodies of POST questions/generate/family-recent.
RecentRequests ==
    { [familyId |-> "F1", targetMemberId |-> "M1", targetRoleLabel |-> <<"daughter">>],
      [familyId |-> "F2", targetMemberId |-> "M2", targetRoleLabel |-> <<"dad">>] }

\* What a question generator can return: a question text and a level.
\* One candidate repeats a question that requests store, one is new.
Candidates ==
    { [question |-> <<"qa">>, level |-> 2],
      [question |-> <<"qn">>, level |-> 3] }

\* Distances ChromaDB can report for the nearest vector, in hundredths:
\* similarities just above, exactly at and just below the threshold.
Distances == {5, 10, 11}

RagKinds == {"personal", "family", "personal_rag", "family_rag"}

InlineKinds == {"personal", "family"}

Kinds == RagKinds \cup {"recent"}

\* ------------------------------------------------------------------------
\* State
\* ------------------------------------------------------------------------

VARIABLES
    collection,          \* the ChromaDB collection: vectors in insertion order
    clock,               \* milliseconds timestamp of the latest store
    pc,                  \* position of the request being served
    kind,                \* use case serving the request
    input,               \* the use case's input DTO
    base_qa,             \* base QADocument of the execution (NoDoc: none)
    rag_context,         \* retrieval result handed to the generator
    attempt,             \* loop variable of the regeneration loop
    question,            \* candidate question of the latest attempt
    level,               \* candidate level of the latest attempt
    regeneration_count,
    similarity_warning,
    stored,              \* result of store: "unset", "ok" or "failed"
    output,              \* output DTO returned by execute (NoOutput: none)
    response,            \* what the router answers (status 0: not answered)
    trace,               \* port calls of this execution, in call order
    genLog,              \* candidates the generator returned, in order
    probeLog,            \* similarities the probe returned, in order
    collection0,         \* the collection when the request arrived
    probeScope,          \* member ids the probes were scoped to, in order
    portCall,            \* latest direct call on the vector store port
    portResult,          \* what that call returned, or that it raised
    lastWrite,           \* latest store or delete among those calls
    probeFailed,         \* whether each probe of the execution failed, in order
    procs                \* local state of the concurrently running operations

vars == <<collection, clock, pc, kind, input, base_qa, rag_context, attempt,
          question, level, regeneration_count, similarity_warning, stored,
          output, response, trace, genLog, probeLog, probeScope, collection0,
          portCall, portResult, lastWrite, probeFailed, procs>>

\* ------------------------------------------------------------------------
\* Domain entity and time conversions
\* ------------------------------------------------------------------------

\* datetime.fromisoformat(s.replace("Z", "+00:00")): the datetime is
\* offset-aware exactly when the string carries an offset.
ParseRequestTime(s) ==
    LET replaced == IF s.offset = "Z" THEN Iso(s.day, "+00:00") ELSE s
    IN  [t |-> replaced.day, aware |-> replaced.offset # ""]

\* datetime.isoformat()
IsoFormat(at) == Iso(at.t, IF at.aware THEN "+00:00" ELSE "")

\* datetime.fromisoformat() of stored metadata
FromIsoFormat(s) == [t |-> s.day, aware |-> s.offset # ""]

QADocument(family_id, member_id, role_label, q, a, answered_at) ==
    [family_id |-> family_id, member_id |-> member_id, role_label |-> role_label,
     question |-> q, answer |-> a, answered_at |-> answered_at]

DayText == <<"1", "2", "3", "4", "5">>

\* QADocument.get_date_parts, as text
get_date_parts(doc) == <<"2026", "1", DayText[doc.answered_at.t]>>

\* ------------------------------------------------------------------------
\* Embedding text: rendering and parsing (texts are token sequences)
\* ------------------------------------------------------------------------

QuestionMarker == "received question:"

AnswerMarker == "<newline>answer:"

Space == " "

_to_embedding_text(doc) ==
    LET d == get_date_parts(doc)
    IN  <<d[1], "Y ", d[2], "M ", d[3], "D ">> \o doc.role_label
        \o <<"(ga) ", QuestionMarker, Space>> \o doc.question
        \o <<AnswerMarker, Space>> \o doc.answer

Contains(text, tok) == \E i \in 1..Len(text) : text[i] = tok

\* str.split(tok): the segments between the occurrences of tok
RECURSIVE SplitOn(_, _)
SplitOn(text, tok) ==
    IF ~Contains(text, tok) THEN <<text>>
    ELSE LET i == CHOOSE k \in 1..Len(text) :
                      text[k] = tok /\ \A j \in 1..(k - 1) : text[j] # tok
         IN  <<SubSeq(text, 1, i - 1)>> \o SplitOn(SubSeq(text, i + 1, Len(text)), tok)

\* str.strip(): drop leading and trailing whitespace
RECURSIVE Strip(_)
Strip(text) ==
    IF text = <<>> THEN text
    ELSE IF Head(text) = Space THEN Strip(Tail(text))
    ELSE IF text[Len(text)] = Space THEN Strip(SubSeq(text, 1, Len(text) - 1))
    ELSE text

\* Returns <<question, answer>>; an unpacking error of the second split is
\* caught and the whole text is returned as the question.
_parse_embedding_text(text) ==
    IF Contains(text, QuestionMarker) /\ Contains(text, AnswerMarker)
    THEN LET question_part == SplitOn(text, QuestionMarker)[2]
             parts == SplitOn(question_part, AnswerMarker)
         IN  IF Len(parts) = 2 THEN <<Strip(parts[1]), Strip(parts[2])>>
             ELSE <<text, <<>> >>
    ELSE <<text, <<>> >>

\* ------------------------------------------------------------------------
\* ChromaVectorStore over the collection
\* ------------------------------------------------------------------------

\* The vector that store() adds for doc at millisecond ms.
Vector(doc, ms) ==
    [id |-> <<doc.family_id, doc.member_id, ms>>,
     document |-> _to_embedding_text(doc),
     metadata |-> [family_id |-> doc.family_id, member_id |-> doc.member_id,
                   role_label |-> doc.role_label,
                   answered_at |-> IsoFormat(doc.answered_at)]]

\* collection.add: ids are the keys of the collection, so a vector whose id
\* the collection already holds does not become a second record.
Add(coll, vector) ==
    IF \E i \in 1..Len(coll) : coll[i].id = vector.id THEN coll
    ELSE Append(coll, vector)

\* A vector read back as a domain entity.
ToEntity(v) ==
    LET qa == _parse_embedding_text(v.document)
    IN  QADocument(v.metadata.family_id, v.metadata.member_id, v.metadata.role_label,
                   qa[1], qa[2], FromIsoFormat(v.metadata.answered_at))

_to_domain_entities(results) == [i \in 1..Len(results) |-> ToEntity(results[i])]

WhereMember(coll, member_id) ==
    SelectSeq(coll, LAMBDA v : v.metadata.member_id = member_id)

WhereFamily(coll, family_id) ==
    SelectSeq(coll, LAMBDA v : v.metadata.family_id = family_id)

Take(seq, n) == SubSeq(seq, 1, IF Len(seq) < n THEN Len(seq) ELSE n)

\* collection.query(n_results = n): at most n of the filtered vectors.  The
\* rank comes from the embeddings, which are opaque here; the filtered
\* vectors are listed in insertion order.
Query(filtered, n) == Take(filtered, n)

\* fails: the embedding call or the collection raised; the error is caught.
search_by_member(coll, member_id, top_k, fails) ==
    IF fails THEN <<>>
    ELSE _to_domain_entities(Query(WhereMember(coll, member_id), top_k))

search_by_family(coll, family_id, top_k, fails) ==
    IF fails THEN <<>>
    ELSE _to_domain_entities(Query(WhereFamily(coll, family_id), top_k))

\* search_similar_questions answering a failed lookup with similarity 1.
search_similar_questionsFailsHigh(coll, member_id, distance, fails) ==
    IF fails THEN 100
    ELSE IF WhereMember(coll, member_id) = <<>> THEN 0
    ELSE 100 - distance

\* 1 - distance of the member's nearest vector; 0 when the member has no
\* vector or the lookup raised.
search_similar_questions(coll, member_id, distance, fails) ==
    IF fails THEN 0
    ELSE IF WhereMember(coll, member_id) = <<>> THEN 0
    ELSE 100 - distance

\* Comparing an offset-aware with a naive datetime raises TypeError.
MixedTimes(entities) ==
    \E i, j \in 1..Len(entities) :
        entities[i].answered_at.aware # entities[j].answered_at.aware

\* list.sort(key = answered_at, reverse = True): stable insertion sort
RECURSIVE InsertDesc(_, _)
InsertDesc(sorted, e) ==
    IF sorted = <<>> THEN <<e>>
    ELSE IF Head(sorted).answered_at.t >= e.answered_at.t
         THEN <<Head(sorted)>> \o InsertDesc(Tail(sorted), e)
         ELSE <<e>> \o sorted

RECURSIVE SortDesc(_)
SortDesc(entities) ==
    IF entities = <<>> THEN <<>>
    ELSE InsertDesc(SortDesc(SubSeq(entities, 1, Len(entities) - 1)),
                    entities[Len(entities)])

get_recent_questions_by_member(coll, member_id, limit, fails) ==
    LET entities == _to_domain_entities(WhereMember(coll, member_id))
    IN  IF fails \/ MixedTimes(entities) THEN <<>>
        ELSE Take(SortDesc(entities), limit)

\* Member ids of the entities in order of first occurrence (dict order).
RECURSIVE MemberOrder(_)
MemberOrder(entities) ==
    IF entities = <<>> THEN <<>>
    ELSE LET m == Head(entities).member_id
         IN  <<m>> \o MemberOrder(SelectSeq(Tail(entities), LAMBDA e : e.member_id # m))

RECURSIVE RecentOfGroups(_, _, _)
RecentOfGroups(entities, members, limit) ==
    IF members = <<>> THEN <<>>
    ELSE LET group == SelectSeq(entities, LAMBDA e : e.member_id = Head(members))
         IN  Take(SortDesc(group), limit) \o RecentOfGroups(entities, Tail(members), limit)

get_recent_questions_by_family(coll, family_id, limit_per_member, fails) ==
    LET all_entities == _to_domain_entities(WhereFamily(coll, family_id))
        members == MemberOrder(all_entities)
        raises == \E i \in 1..Len(members) :
                      MixedTimes(SelectSeq(all_entities,
                                           LAMBDA e : e.member_id = members[i]))
    IN  IF fails \/ raises THEN <<>>
        ELSE RecentOfGroups(all_entities, members, limit_per_member)

\* list.sort(key = answered_at): stable insertion sort, ascending
RECURSIVE InsertAsc(_, _)
InsertAsc(sorted, e) ==
    IF sorted = <<>> THEN <<e>>
    ELSE IF Head(sorted).answered_at.t <= e.answered_at.t
         THEN <<Head(sorted)>> \o InsertAsc(Tail(sorted), e)
         ELSE <<e>> \o sorted

RECURSIVE SortAsc(_)
SortAsc(entities) ==
    IF entities = <<>> THEN <<>>
    ELSE InsertAsc(SortAsc(SubSeq(entities, 1, Len(entities) - 1)),
                   entities[Len(entities)])

\* `start <= answered_at <= end` raises TypeError when it orders an
\* offset-aware against a naive datetime; the second comparison is made
\* only when the first one is true.
RangeTestRaises(start, answered_at, end) ==
    \/ start.aware # answered_at.aware
    \/ start.t <= answered_at.t /\ answered_at.aware # end.aware

InRange(start, answered_at, end) ==
    start.t <= answered_at.t /\ answered_at.t <= end.t

\* The error of the get or of a comparison is caught: the result is [].
get_qa_by_family_in_range(coll, family_id, start, end, fails) ==
    LET all_entities == _to_domain_entities(WhereFamily(coll, family_id))
        raises == \E i \in 1..Len(all_entities) :
                      RangeTestRaises(start, all_entities[i].answered_at, end)
        entities == SelectSeq(all_entities,
                              LAMBDA e : InRange(start, e.answered_at, end))
    IN  IF fails \/ raises THEN <<>> ELSE SortAsc(entities)

\* What a port call hands to its caller: a value, or an exception.
Returned(value) == [raised |-> FALSE, value |-> value]

Raised == [raised |-> TRUE]

\* store with the except clause re-raising the error.
storePropagates(coll, doc, ms, fails) ==
    IF fails THEN [result |-> Raised, coll |-> coll]
    ELSE [result |-> Returned(TRUE), coll |-> Add(coll, Vector(doc, ms))]

\* ChromaVectorStore.store at millisecond ms: the result and the collection
\* it leaves.  A failure of the embedding or of the add is caught: False.
store(coll, doc, ms, fails) ==
    IF fails THEN [result |-> Returned(FALSE), coll |-> coll]
    ELSE [result |-> Returned(TRUE), coll |-> Add(coll, Vector(doc, ms))]

\* MemberIds without the where filter.
MemberIdsOfAll(coll, member_id) == [i \in 1..Len(coll) |-> coll[i].id]

\* collection.get(where = {member_id}, include = [])["ids"]
MemberIds(coll, member_id) ==
    LET results == WhereMember(coll, member_id)
    IN  [i \in 1..Len(results) |-> results[i].id]

\* DeleteIds removing the first listed id only.
DeleteIdsFirstOnly(coll, ids) ==
    SelectSeq(coll, LAMBDA v : v.id # ids[1])

\* collection.delete(ids = ids)
DeleteIds(coll, ids) ==
    SelectSeq(coll, LAMBDA v : \A i \in 1..Len(ids) : v.id # ids[i])

\* ChromaVectorStore.delete_by_member: the count or the re-raised error, and
\* the collection it leaves.
delete_by_member(coll, member_id, fails) ==
    LET ids == MemberIds(coll, member_id)
    IN  IF fails THEN [result |-> Raised, coll |-> coll]
        ELSE IF ids = <<>> THEN [result |-> Returned(0), coll |-> coll]
        ELSE [result |-> Returned(Len(ids)), coll |-> DeleteIds(coll, ids)]

\* ------------------------------------------------------------------------
\* Use cases
\* ------------------------------------------------------------------------

DefaultRoleLabel == <<"member">>

\* Router: API schema -> use case input DTO.
RagInput(req) ==
    [family_id |-> req.familyId, member_id |-> req.memberId,
     role_label |-> req.roleLabel, base_question |-> req.baseQuestion,
     base_answer |-> req.baseAnswer,
     answered_at |-> ParseRequestTime(req.answeredAt)]

RecentInput(req) ==
    [family_id |-> req.familyId, target_member_id |-> req.targetMemberId,
     target_role_label |-> req.targetRoleLabel]

\* InlineBaseQa with the question and the answer interchanged.
InlineBaseQaSwapsFields(dto) ==
    QADocument(dto.family_id, dto.member_id, dto.role_label,
               dto.base_answer, dto.base_question, dto.answered_at)

\* GeneratePersonalQuestionUseCase / GenerateFamilyQuestionUseCase: the base
\* QA carries the request's role label.
InlineBaseQa(dto) ==
    QADocument(dto.family_id, dto.member_id, dto.role_label,
               dto.base_question, dto.base_answer, dto.answered_at)

\* RAGQuestionUseCase._create_base_qa: the role label is the looked-up one.
_create_base_qa(dto, role_label) ==
    QADocument(dto.family_id, dto.member_id, role_label,
               dto.base_question, dto.base_answer, dto.answered_at)

\* RAGQuestionUseCase._get_role_label followed by the default of execute
\* (`if not role_label`: no recent QA, or an empty label).
_get_role_label(coll, member_id, fails) ==
    LET recent == get_recent_questions_by_member(coll, member_id, 1, fails)
    IN  IF recent # <<>> /\ recent[1].role_label # <<>>
        THEN recent[1].role_label ELSE DefaultRoleLabel

\* ProbeMember passing the family id of the request as the probe's scope.
ProbeMemberByFamily(k, dto) == dto.family_id

\* The member_id argument of search_similar_questions in the loop of use
\* case k: the member the novelty probe is scoped to.
ProbeMember(k, dto) ==
    IF k = "recent" THEN dto.target_member_id ELSE dto.member_id

\* Flow with store ahead of the retrieval in the inline use cases.
FlowStoreFirst(k, at) ==
    CASE at = "request" -> (IF k \in InlineKinds THEN "store"
                            ELSE IF k = "recent" THEN "context" ELSE "role")
      [] at = "role"    -> "search"
      [] at = "search"  -> "gen"
      [] at = "context" -> "gen"
      [] at = "loop"    -> (IF k = "recent" \/ k \in InlineKinds THEN "return"
                            ELSE "store")
      [] at = "store"   -> (IF k \in InlineKinds THEN "search" ELSE "return")

\* Flow with the store of the family RAG use case left out.
FlowSkipsStore(k, at) ==
    CASE at = "request" -> (IF k \in InlineKinds THEN "search"
                            ELSE IF k = "recent" THEN "context" ELSE "role")
      [] at = "role"    -> "search"
      [] at = "search"  -> "gen"
      [] at = "context" -> "gen"
      [] at = "loop"    -> (IF k \in {"recent", "family_rag"} THEN "return"
                            ELSE "store")
      [] at = "store"   -> "return"

\* Flow with the store block also in the family-recent use case.
FlowRecentStores(k, at) ==
    CASE at = "request" -> (IF k \in InlineKinds THEN "search"
                            ELSE IF k = "recent" THEN "context" ELSE "role")
      [] at = "role"    -> "search"
      [] at = "search"  -> "gen"
      [] at = "context" -> "gen"
      [] at = "loop"    -> "store"
      [] at = "store"   -> "return"

\* Flow with the retrieval of the inline use cases moved behind the loop.
FlowSearchLate(k, at) ==
    CASE at = "request" -> (IF k \in InlineKinds THEN "gen"
                            ELSE IF k = "recent" THEN "context" ELSE "role")
      [] at = "role"    -> "search"
      [] at = "search"  -> (IF k \in InlineKinds THEN "store" ELSE "gen")
      [] at = "context" -> "gen"
      [] at = "loop"    -> (IF k = "recent" THEN "return"
                            ELSE IF k \in InlineKinds THEN "search" ELSE "store")
      [] at = "store"   -> "return"

\* The statement order of the execute methods: the port call that follows
\* step `at` in use case k ("return": build the output DTO and return).
Flow(k, at) ==
    CASE at = "request" -> (IF k \in InlineKinds THEN "search"
                            ELSE IF k = "recent" THEN "context" ELSE "role")
      [] at = "role"    -> "search"
      [] at = "search"  -> "gen"
      [] at = "context" -> "gen"
      [] at = "loop"    -> (IF k = "recent" THEN "return" ELSE "store")
      [] at = "store"   -> "return"

\* PersonalLoopCheck counting the regeneration before the last-attempt test.
PersonalLoopCheckCountsFirst(att, similarity, rc, warn) ==
    IF similarity < SIMILARITY_THRESHOLD
    THEN [brk |-> TRUE, regeneration_count |-> rc, similarity_warning |-> warn]
    ELSE IF att = MAX_REGENERATION - 1
    THEN [brk |-> TRUE, regeneration_count |-> rc + 1, similarity_warning |-> TRUE]
    ELSE [brk |-> FALSE, regeneration_count |-> rc + 1, similarity_warning |-> warn]

\* One pass of the regeneration loop after the probe returned `similarity`:
\* whether the loop breaks, and the new counter and warning flag.
\* Inline loop of GeneratePersonalQuestionUseCase.execute.
PersonalLoopCheck(att, similarity, rc, warn) ==
    IF similarity < SIMILARITY_THRESHOLD
    THEN [brk |-> TRUE, regeneration_count |-> rc, similarity_warning |-> warn]
    ELSE IF att = MAX_REGENERATION - 1
    THEN [brk |-> TRUE, regeneration_count |-> rc, similarity_warning |-> TRUE]
    ELSE [brk |-> FALSE, regeneration_count |-> rc + 1, similarity_warning |-> warn]

\* FamilyLoopCheck raising the warning on every too-similar attempt.
FamilyLoopCheckWarnsEarly(att, similarity, rc, warn) ==
    IF similarity < SIMILARITY_THRESHOLD
    THEN [brk |-> TRUE, regeneration_count |-> rc, similarity_warning |-> warn]
    ELSE IF att = MAX_REGENERATION - 1
    THEN [brk |-> TRUE, regeneration_count |-> rc, similarity_warning |-> TRUE]
    ELSE [brk |-> FALSE, regeneration_count |-> rc + 1, similarity_warning |-> TRUE]

\* Inline loop of GenerateFamilyQuestionUseCase.execute.
FamilyLoopCheck(att, similarity, rc, warn) ==
    IF similarity < SIMILARITY_THRESHOLD
    THEN [brk |-> TRUE, regeneration_count |-> rc, similarity_warning |-> warn]
    ELSE IF att = MAX_REGENERATION - 1
    THEN [brk |-> TRUE, regeneration_count |-> rc, similarity_warning |-> TRUE]
    ELSE [brk |-> FALSE, regeneration_count |-> rc + 1, similarity_warning |-> warn]

\* RetryLoopCheck with the last attempt taken to be attempt M.
RetryLoopCheckOffByOne(att, similarity, rc, warn) ==
    IF similarity < SIMILARITY_THRESHOLD
    THEN [brk |-> TRUE, regeneration_count |-> rc, similarity_warning |-> warn]
    ELSE IF att = MAX_REGENERATION
    THEN [brk |-> TRUE, regeneration_count |-> rc, similarity_warning |-> TRUE]
    ELSE [brk |-> FALSE, regeneration_count |-> rc + 1, similarity_warning |-> warn]

\* QuestionGenerationUseCase._generate_with_retry.
RetryLoopCheck(att, similarity, rc, warn) ==
    IF similarity < SIMILARITY_THRESHOLD
    THEN [brk |-> TRUE, regeneration_count |-> rc, similarity_warning |-> warn]
    ELSE IF att = MAX_REGENERATION - 1
    THEN [brk |-> TRUE, regeneration_count |-> rc, similarity_warning |-> TRUE]
    ELSE [brk |-> FALSE, regeneration_count |-> rc + 1, similarity_warning |-> warn]

\* TargetLoopCheck accepting a similarity equal to the threshold.
TargetLoopCheckAcceptsThreshold(att, similarity, rc, warn) ==
    IF similarity <= SIMILARITY_THRESHOLD
    THEN [brk |-> TRUE, regeneration_count |-> rc, similarity_warning |-> warn]
    ELSE IF att = MAX_REGENERATION - 1
    THEN [brk |-> TRUE, regeneration_count |-> rc, similarity_warning |-> TRUE]
    ELSE [brk |-> FALSE, regeneration_count |-> rc + 1, similarity_warning |-> warn]

\* FamilyRecentQuestionUseCase._generate_for_target_with_retry.
TargetLoopCheck(att, similarity, rc, warn) ==
    IF similarity < SIMILARITY_THRESHOLD
    THEN [brk |-> TRUE, regeneration_count |-> rc, similarity_warning |-> warn]
    ELSE IF att = MAX_REGENERATION - 1
    THEN [brk |-> TRUE, regeneration_count |-> rc, similarity_warning |-> TRUE]
    ELSE [brk |-> FALSE, regeneration_count |-> rc + 1, similarity_warning |-> warn]

LoopCheck(k, att, similarity, rc, warn) ==
    CASE k = "personal" -> PersonalLoopCheck(att, similarity, rc, warn)
      [] k = "family"   -> FamilyLoopCheck(att, similarity, rc, warn)
      [] k = "recent"   -> TargetLoopCheck(att, similarity, rc, warn)
      [] OTHER          -> RetryLoopCheck(att, similarity, rc, warn)

\* OutputDto answering with the base question instead of the candidate.
OutputDtoEchoesBaseQuestion(k, dto, q, lv, context, rc, warn) ==
    IF k = "recent"
    THEN [question |-> q, level |-> lv,
          metadata |-> [context_count |-> Len(context),
                        target_member_id |-> dto.target_member_id,
                        family_id |-> dto.family_id,
                        regeneration_count |-> rc, similarity_warning |-> warn]]
    ELSE [question |-> dto.base_question, level |-> lv,
          metadata |-> [rag_count |-> Len(context),
                        member_id |-> dto.member_id,
                        family_id |-> dto.family_id,
                        regeneration_count |-> rc, similarity_warning |-> warn]]

\* Output DTO of the use case.
OutputDto(k, dto, q, lv, context, rc, warn) ==
    IF k = "recent"
    THEN [question |-> q, level |-> lv,
          metadata |-> [context_count |-> Len(context),
                        target_member_id |-> dto.target_member_id,
                        family_id |-> dto.family_id,
                        regeneration_count |-> rc, similarity_warning |-> warn]]
    ELSE [question |-> q, level |-> lv,
          metadata |-> [rag_count |-> Len(context),
                        member_id |-> dto.member_id,
                        family_id |-> dto.family_id,
                        regeneration_count |-> rc, similarity_warning |-> warn]]

Priority(k) ==
    CASE k \in {"personal", "personal_rag"} -> 2
      [] k \in {"family", "family_rag"}     -> 3
      [] k = "recent"                       -> 4

\* Router: output DTO -> 200 response.
OkResponse(k, dto, out) ==
    [status |-> 200, memberId |-> ProbeMember(k, dto), content |-> out.question,
     level |-> out.level, priority |-> Priority(k), metadata |-> out.metadata]

\* Router: any exception of execute -> HTTPException(500).
ErrorResponse == [status |-> HTTP_ERROR]

\* ------------------------------------------------------------------------
\* Actions
\* ------------------------------------------------------------------------

Init ==
    /\ collection = <<>>
    /\ clock = 0
    /\ pc = "idle"
    /\ kind = "none"
    /\ input = NoInput
    /\ base_qa = NoDoc
    /\ rag_context = <<>>
    /\ attempt = 0
    /\ question = <<>>
    /\ level = 0
    /\ regeneration_count = 0
    /\ similarity_warning = FALSE
    /\ stored = "unset"
    /\ output = NoOutput
    /\ response = NoResponse
    /\ trace = <<>>
    /\ genLog = <<>>
    /\ probeLog = <<>>
    /\ collection0 = <<>>
    /\ probeScope = <<>>
    /\ portCall = NoCall
    /\ portResult = NoResult
    /\ lastWrite = NoCall
    /\ probeFailed = <<>>
    /\ procs = NoProcs

\* The use case returns its output DTO and the router answers 200.
Return(q, lv, rc, warn) ==
    /\ pc' = "done"
    /\ output' = OutputDto(kind, input, q, lv, rag_context, rc, warn)
    /\ response' = OkResponse(kind, input, output')

\* An exception leaves execute and the router answers 500.
Raise ==
    /\ pc' = "error"
    /\ output' = NoOutput
    /\ response' = ErrorResponse

\* Control moves to the port call `next`, or the use case returns.
Goto(next, q, lv, rc, warn) ==
    IF next = "return" THEN Return(q, lv, rc, warn)
    ELSE pc' = next /\ UNCHANGED <<output, response>>

\* A request arrives while none is being served: the router builds the input
\* DTO and execute runs up to its first port call.
Request(k, req) ==
    /\ pc \in {"idle", "done", "error"}
    /\ k \in RagKinds => Len(collection) < MaxDocs
    /\ kind' = k
    /\ input' = IF k = "recent" THEN RecentInput(req) ELSE RagInput(req)
    /\ base_qa' = IF k \in InlineKinds THEN InlineBaseQa(input') ELSE NoDoc
    /\ rag_context' = <<>>
    /\ attempt' = 0
    /\ question' = <<>>
    /\ level' = 0
    /\ regeneration_count' = 0
    /\ similarity_warning' = FALSE
    /\ stored' = "unset"
    /\ output' = NoOutput
    /\ response' = NoResponse
    /\ trace' = <<>>
    /\ genLog' = <<>>
    /\ probeLog' = <<>>
    /\ collection0' = collection
    /\ probeScope' = <<>>
    /\ probeFailed' = <<>>
    /\ pc' = Flow(k, "request")
    /\ UNCHANGED <<collection, clock, portCall, portResult, lastWrite, procs>>

\* RAGQuestionUseCase.execute, steps 1-2: role label lookup, base QA.
LookupRole(fails) ==
    /\ pc = "role"
    /\ base_qa' = _create_base_qa(input, _get_role_label(collection, input.member_id, fails))
    /\ trace' = Append(trace, "get_recent_questions_by_member")
    /\ pc' = Flow(kind, "role")
    /\ UNCHANGED <<collection, clock, kind, input, rag_context, attempt, question,
                   level, regeneration_count, similarity_warning, stored, output,
                   response, genLog, probeLog, probeScope, probeFailed, collection0,
                   portCall, portResult, lastWrite, procs>>

\* RAG retrieval: by member (top_k = 5) or by family (top_k = 10).
SearchRag(fails) ==
    /\ pc = "search"
    /\ IF kind \in {"personal", "personal_rag"}
       THEN /\ rag_context' = search_by_member(collection, input.member_id,
                                               PERSONAL_TOP_K, fails)
            /\ trace' = Append(trace, "search_by_member")
       ELSE /\ rag_context' = search_by_family(collection, input.family_id,
                                               FAMILY_TOP_K, fails)
            /\ trace' = Append(trace, "search_by_family")
    /\ pc' = Flow(kind, "search")
    /\ UNCHANGED <<collection, clock, kind, input, base_qa, attempt, question,
                   level, regeneration_count, similarity_warning, stored, output,
                   response, genLog, probeLog, probeScope, probeFailed, collection0,
                   portCall, portResult, lastWrite, procs>>

\* FamilyRecentQuestionUseCase.execute, step 1.
RecentContext(fails) ==
    /\ pc = "context"
    /\ rag_context' = get_recent_questions_by_family(collection, input.family_id,
                                                     LIMIT_PER_MEMBER, fails)
    /\ trace' = Append(trace, "get_recent_questions_by_family")
    /\ pc' = Flow(kind, "context")
    /\ UNCHANGED <<collection, clock, kind, input, base_qa, attempt, question,
                   level, regeneration_count, similarity_warning, stored, output,
                   response, genLog, probeLog, probeScope, probeFailed, collection0,
                   portCall, portResult, lastWrite, procs>>

\* Generate keeping the candidate of the first attempt.
GenerateKeepsFirst(cand) ==
    /\ pc = "gen"
    /\ question' = IF genLog = <<>> THEN cand.question ELSE question
    /\ level' = IF genLog = <<>> THEN cand.level ELSE level
    /\ genLog' = Append(genLog, cand)
    /\ trace' = Append(trace, "generate")
    /\ pc' = "probe"
    /\ UNCHANGED <<collection, clock, kind, input, base_qa, rag_context, attempt,
                   regeneration_count, similarity_warning, stored, output,
                   response, probeLog, probeScope, probeFailed, collection0,
                   portCall, portResult, lastWrite, procs>>

\* The generator returns a candidate.
Generate(cand) ==
    /\ pc = "gen"
    /\ question' = cand.question
    /\ level' = cand.level
    /\ genLog' = Append(genLog, cand)
    /\ trace' = Append(trace, "generate")
    /\ pc' = "probe"
    /\ UNCHANGED <<collection, clock, kind, input, base_qa, rag_context, attempt,
                   regeneration_count, similarity_warning, stored, output,
                   response, probeLog, probeScope, probeFailed, collection0,
                   portCall, portResult, lastWrite, procs>>

\* GenerateRaises with the loop catching the error and driving the next
\* attempt, the error leaving execute only on the last attempt.
GenerateRaisesRetried ==
    /\ pc = "gen"
    /\ trace' = Append(trace, "generate_raised")
    /\ IF attempt + 1 < MAX_REGENERATION
       THEN /\ attempt' = attempt + 1
            /\ UNCHANGED <<pc, output, response>>
       ELSE /\ Raise
            /\ UNCHANGED attempt
    /\ UNCHANGED <<collection, clock, kind, input, base_qa, rag_context,
                   question, level, regeneration_count, similarity_warning,
                   stored, genLog, probeLog, probeScope, probeFailed, collection0,
                   portCall, portResult, lastWrite, procs>>

\* GenerateRaises with the error caught by the loop, which is left with the
\* candidate of the previous attempt.
GenerateRaisesSwallowed ==
    /\ pc = "gen"
    /\ trace' = Append(trace, "generate_raised")
    /\ Goto(Flow(kind, "loop"), question, level, regeneration_count,
            similarity_warning)
    /\ UNCHANGED <<collection, clock, kind, input, base_qa, rag_context, attempt,
                   question, level, regeneration_count, similarity_warning,
                   stored, genLog, probeLog, probeScope, probeFailed, collection0,
                   portCall, portResult, lastWrite, procs>>

\* The generator raises (LLM failure, or required keys missing: ValueError).
\* No loop copy catches it: it leaves execute and the router answers 500.
GenerateRaises ==
    /\ pc = "gen"
    /\ trace' = Append(trace, "generate_raised")
    /\ Raise
    /\ UNCHANGED <<collection, clock, kind, input, base_qa, rag_context, attempt,
                   question, level, regeneration_count, similarity_warning,
                   stored, genLog, probeLog, probeScope, probeFailed, collection0,
                   portCall, portResult, lastWrite, procs>>

\* The probe returns and the loop decides: break, or another attempt.
Probe(distance, fails) ==
    /\ pc = "probe"
    /\ LET similarity == search_similar_questions(collection, ProbeMember(kind, input),
                                                  distance, fails)
           r == LoopCheck(kind, attempt, similarity, regeneration_count,
                          similarity_warning)
       IN  /\ probeLog' = Append(probeLog, similarity)
           /\ probeScope' = Append(probeScope, ProbeMember(kind, input))
           /\ probeFailed' = Append(probeFailed, fails)
           /\ regeneration_count' = r.regeneration_count
           /\ similarity_warning' = r.similarity_warning
           /\ IF r.brk \/ attempt + 1 >= MAX_REGENERATION
              THEN /\ attempt' = attempt
                   /\ Goto(Flow(kind, "loop"), question, level,
                           r.regeneration_count, r.similarity_warning)
              ELSE /\ attempt' = attempt + 1
                   /\ pc' = "gen"
                   /\ UNCHANGED <<output, response>>
    /\ trace' = Append(trace, "search_similar_questions")
    /\ UNCHANGED <<collection, clock, kind, input, base_qa, rag_context, question,
                   level, stored, genLog, collection0,
                   portCall, portResult, lastWrite, procs>>

\* Store without the test of the result.
StoreIgnoresResult(ok) ==
    /\ pc = "store"
    /\ trace' = Append(trace, "store")
    /\ IF ok
       THEN /\ clock' = clock + 1
            /\ collection' = Add(collection, Vector(base_qa, clock'))
            /\ stored' = "ok"
       ELSE /\ stored' = "failed"
            /\ UNCHANGED <<collection, clock>>
    /\ Goto(Flow(kind, "store"), question, level, regeneration_count,
            similarity_warning)
    /\ UNCHANGED <<kind, input, base_qa, rag_context, attempt, question, level,
                   regeneration_count, similarity_warning, genLog, probeLog,
                   probeScope, probeFailed, collection0, portCall, portResult,
                   lastWrite, procs>>

\* vector_store.store(base_qa); a false result raises.
Store(ok) ==
    /\ pc = "store"
    /\ trace' = Append(trace, "store")
    /\ IF ok
       THEN /\ clock' = clock + 1
            /\ collection' = Add(collection, Vector(base_qa, clock'))
            /\ stored' = "ok"
            /\ Goto(Flow(kind, "store"), question, level, regeneration_count,
                    similarity_warning)
       ELSE /\ stored' = "failed"
            /\ Raise
            /\ UNCHANGED <<collection, clock>>
    /\ UNCHANGED <<kind, input, base_qa, rag_context, attempt, question, level,
                   regeneration_count, similarity_warning, genLog, probeLog,
                   probeScope, probeFailed, collection0, portCall, portResult,
                   lastWrite, procs>>

Next ==
    \/ \E k \in RagKinds, req \in RagRequests : Request(k, req)
    \/ \E req \in RecentRequests : Request("recent", req)
    \/ \E fails \in BOOLEAN : LookupRole(fails)
    \/ \E fails \in BOOLEAN : SearchRag(fails)
    \/ \E fails \in BOOLEAN : RecentContext(fails)
    \/ \E cand \in Candidates : Generate(cand)
    \/ GenerateRaises
    \/ \E distance \in Distances, fails \in BOOLEAN : Probe(distance, fails)
    \/ \E ok \in BOOLEAN : Store(ok)

Spec == Init /\ [][Next]_vars

\* ------------------------------------------------------------------------
\* The vector store port under arbitrary call sequences, with the
\* members/delete and summary endpoints
\* ------------------------------------------------------------------------

\* QADocuments handed to store: the base QAs of the request bodies, and one
\* more answer of family F2 with a timestamp without offset.
PortDocs ==
    {InlineBaseQa(RagInput(req)) : req \in RagRequests}
    \cup {QADocument("F2", "M2", <<"dad">>, <<"qa">>, <<"a1">>,
                      [t |-> 1, aware |-> FALSE])}

\* Member ids of the calls; M9 never stores.
PortMembers == {"M1", "M2", "M9"}

PortFamilies == {"F1", "F2"}

\* top_k / limit arguments: one, and the values the use cases pass.
TopKs == {1, PERSONAL_TOP_K}

Limits == {1, LIMIT_PER_MEMBER}

\* Distances of the nearest vector, in hundredths: the collection is created
\* without "hnsw:space", so they are not confined to [0, 1].
PortDistances == {5, 150}

\* datetime.now() of a summary request, as a day.
Nows == {2, 9}

Periods == {"weekly", "monthly"}

\* PERIOD_DAYS.get(period, 7)
PERIOD_DAYS(period) == IF period = "monthly" THEN 30 ELSE 7

HTTP_BAD_REQUEST == 400

\* The variables of a question-generation execution.
execVars == <<pc, kind, input, base_qa, rag_context, attempt, question, level,
              regeneration_count, similarity_warning, stored, output, trace,
              genLog, probeLog, probeScope, probeFailed, procs>>

\* A call made on the port outside of a router: no HTTP response.
PortReturns(call, result) ==
    /\ portCall' = call
    /\ portResult' = result
    /\ collection0' = collection
    /\ response' = NoResponse
    /\ UNCHANGED execVars

CallStore(doc, fails) ==
    /\ clock < MaxStores
    /\ LET r == store(collection, doc, clock + 1, fails)
       IN  /\ collection' = r.coll
           /\ clock' = IF fails THEN clock ELSE clock + 1
           /\ PortReturns([op |-> "store", member_id |-> doc.member_id,
                           fails |-> fails], r.result)
           /\ lastWrite' = IF fails THEN lastWrite
                           ELSE [op |-> "store", member_id |-> doc.member_id,
                                 value |-> 1]

CallSearchByMember(member_id, top_k, fails) ==
    /\ PortReturns([op |-> "search_by_member", member_id |-> member_id,
                    top_k |-> top_k, fails |-> fails],
                   Returned(search_by_member(collection, member_id, top_k, fails)))
    /\ UNCHANGED <<collection, clock, lastWrite>>

CallSearchByFamily(family_id, top_k, fails) ==
    /\ PortReturns([op |-> "search_by_family", family_id |-> family_id,
                    top_k |-> top_k, fails |-> fails],
                   Returned(search_by_family(collection, family_id, top_k, fails)))
    /\ UNCHANGED <<collection, clock, lastWrite>>

CallSimilar(member_id, distance, fails) ==
    /\ PortReturns([op |-> "search_similar_questions", member_id |-> member_id,
                    distance |-> distance, fails |-> fails],
                   Returned(search_similar_questions(collection, member_id,
                                                     distance, fails)))
    /\ UNCHANGED <<collection, clock, lastWrite>>

CallRecentByMember(member_id, limit, fails) ==
    /\ PortReturns([op |-> "get_recent_questions_by_member",
                    member_id |-> member_id, limit |-> limit, fails |-> fails],
                   Returned(get_recent_questions_by_member(collection, member_id,
                                                           limit, fails)))
    /\ UNCHANGED <<collection, clock, lastWrite>>

CallRecentByFamily(family_id, limit, fails) ==
    /\ PortReturns([op |-> "get_recent_questions_by_family",
                    family_id |-> family_id, limit |-> limit, fails |-> fails],
                   Returned(get_recent_questions_by_family(collection, family_id,
                                                           limit, fails)))
    /\ UNCHANGED <<collection, clock, lastWrite>>

\* delete_member_data without the test of a zero count.
delete_member_dataAlwaysOk(member_id, fails) ==
    LET r == delete_by_member(collection, member_id, fails)
    IN  /\ collection' = r.coll
        /\ collection0' = collection
        /\ portCall' = [op |-> "delete_by_member", member_id |-> member_id,
                        fails |-> fails]
        /\ portResult' = r.result
        /\ response' = IF r.result.raised THEN ErrorResponse
                       ELSE [status |-> 200, deletedCount |-> r.result.value]
        /\ lastWrite' = IF r.coll = collection THEN lastWrite
                        ELSE [op |-> "delete_by_member", member_id |-> member_id,
                              value |-> r.result.value]
        /\ UNCHANGED clock
        /\ UNCHANGED execVars

\* POST members/delete: delete_by_member, 400 when nothing was deleted; the
\* router catches nothing, so a raised error is answered with 500.
delete_member_data(member_id, fails) ==
    LET r == delete_by_member(collection, member_id, fails)
    IN  /\ collection' = r.coll
        /\ collection0' = collection
        /\ portCall' = [op |-> "delete_by_member", member_id |-> member_id,
                        fails |-> fails]
        /\ portResult' = r.result
        /\ response' = IF r.result.raised THEN ErrorResponse
                       ELSE IF r.result.value = 0 THEN [status |-> HTTP_BAD_REQUEST]
                       ELSE [status |-> 200, deletedCount |-> r.result.value]
        /\ lastWrite' = IF r.coll = collection THEN lastWrite
                        ELSE [op |-> "delete_by_member", member_id |-> member_id,
                              value |-> r.result.value]
        /\ UNCHANGED clock
        /\ UNCHANGED execVars

\* GET summary: FamilySummaryUseCase.execute over the days before now (both
\* bounds from datetime.now(), without offset), then the summary generator,
\* whose error the router answers with 500.
get_family_summary(family_id, period, now, fails, generatorFails) ==
    LET end == [t |-> now, aware |-> FALSE]
        start == [t |-> now - PERIOD_DAYS(period), aware |-> FALSE]
        docs == get_qa_by_family_in_range(collection, family_id, start, end, fails)
    IN  /\ portCall' = [op |-> "get_qa_by_family_in_range", family_id |-> family_id,
                        start |-> start, end |-> end, fails |-> fails]
        /\ portResult' = Returned(docs)
        /\ collection0' = collection
        /\ response' = IF generatorFails THEN ErrorResponse
                       ELSE [status |-> 200, answer_count |-> Len(docs)]
        /\ UNCHANGED <<collection, clock, lastWrite>>
        /\ UNCHANGED execVars

StoreNext ==
    \/ \E doc \in PortDocs, fails \in BOOLEAN : CallStore(doc, fails)
    \/ \E m \in PortMembers, k \in TopKs, fails \in BOOLEAN :
           CallSearchByMember(m, k, fails)
    \/ \E f \in PortFamilies, k \in TopKs, fails \in BOOLEAN :
           CallSearchByFamily(f, k, fails)
    \/ \E m \in PortMembers, d \in PortDistances, fails \in BOOLEAN :
           CallSimilar(m, d, fails)
    \/ \E m \in PortMembers, n \in Limits, fails \in BOOLEAN :
           CallRecentByMember(m, n, fails)
    \/ \E f \in PortFamilies, n \in Limits, fails \in BOOLEAN :
           CallRecentByFamily(f, n, fails)
    \/ \E m \in PortMembers, fails \in BOOLEAN : delete_member_data(m, fails)
    \/ \E f \in PortFamilies, p \in Periods, now \in Nows, fails \in BOOLEAN,
          generatorFails \in BOOLEAN :
           get_family_summary(f, p, now, fails, generatorFails)

StoreSpec == Init /\ [][StoreNext]_vars

\* ------------------------------------------------------------------------
\* The family scan over answers whose timestamps come in both forms
\* ------------------------------------------------------------------------

\* QADocuments handed to store: those of the port calls above, and one more
\* answer of M1 in family F1 whose timestamp, unlike that of the request
\* body, carries no offset (the routers accept both forms).
RecentDocs ==
    PortDocs \cup {QADocument("F1", "M1", <<"daughter">>, <<"qn">>, <<"a2">>,
                              [t |-> 3, aware |-> FALSE])}

RecentNext ==
    \/ \E doc \in RecentDocs, fails \in BOOLEAN : CallStore(doc, fails)
    \/ \E f \in PortFamilies, n \in Limits, fails \in BOOLEAN :
           CallRecentByFamily(f, n, fails)

RecentSpec == Init /\ [][RecentNext]_vars

\* ------------------------------------------------------------------------
\* Concurrent requests: every await of a coroutine is a point where the
\* other request can run (the ChromaDB calls run in the thread pool)
\* ------------------------------------------------------------------------

\* The requests in flight.
Procs == {"p1", "p2"}

\* Personal question requests of member M1.
ConcRequests == {req \in RagRequests : req.memberId = "M1"}

\* Members whose history a concurrent members/delete request removes.
ConcMembers == {"M1"}

ConcCandidates == {[question |-> <<"qn">>, level |-> 3]}

\* Similarities above and below the threshold.
ConcDistances == {5, 11}

\* A record of M1 that an earlier request stored, at millisecond 0.
EarlierDoc ==
    QADocument("F1", "M1", <<"daughter">>, <<"q0">>, <<"a0">>,
               [t |-> 1, aware |-> TRUE])

\* Local state of a request that has not started.
IdleProc ==
    [pc |-> "idle", op |-> "none", input |-> NoInput, base_qa |-> NoDoc,
     rag_context |-> <<>>, attempt |-> 0, question |-> <<>>, level |-> 0,
     regeneration_count |-> 0, similarity_warning |-> FALSE, stored |-> "unset",
     doc_id |-> <<>>, member_id |-> "", ids |-> <<>>, result |-> NoResult,
     trace |-> <<>>, storesBefore |-> {}, left |-> <<>>]

\* The variables of the one-at-a-time specifications.
requestVars == <<pc, kind, input, base_qa, rag_context, attempt, question, level,
                 regeneration_count, similarity_warning, stored, output,
                 response, trace, genLog, probeLog, probeScope, probeFailed,
                 collection0, portCall, portResult, lastWrite>>

ConcInit ==
    /\ collection \in {<<>>, Add(<<>>, Vector(EarlierDoc, 0))}
    /\ clock = 1
    /\ procs = [p \in Procs |-> IdleProc]
    /\ pc = "idle"
    /\ kind = "none"
    /\ input = NoInput
    /\ base_qa = NoDoc
    /\ rag_context = <<>>
    /\ attempt = 0
    /\ question = <<>>
    /\ level = 0
    /\ regeneration_count = 0
    /\ similarity_warning = FALSE
    /\ stored = "unset"
    /\ output = NoOutput
    /\ response = NoResponse
    /\ trace = <<>>
    /\ genLog = <<>>
    /\ probeLog = <<>>
    /\ collection0 = <<>>
    /\ probeScope = <<>>
    /\ portCall = NoCall
    /\ portResult = NoResult
    /\ lastWrite = NoCall
    /\ probeFailed = <<>>

\* Request p moves on: its local state becomes `local`.
Step(p, local) ==
    /\ procs' = [procs EXCEPT ![p] = local]
    /\ UNCHANGED requestVars

\* datetime.now() reaches the next millisecond.
Tick ==
    /\ clock < MaxClock
    /\ clock' = clock + 1
    /\ UNCHANGED <<collection, procs>>
    /\ UNCHANGED requestVars

\* POST questions/generate/personal arrives: GeneratePersonalQuestionUseCase
\* builds its base QA and reaches the await of the retrieval.
ConcRequest(p, req) ==
    /\ procs[p].pc = "idle"
    /\ LET dto == RagInput(req)
       IN  Step(p, [procs[p] EXCEPT !.op = "personal", !.input = dto,
                                    !.base_qa = InlineBaseQa(dto),
                                    !.pc = Flow("personal", "request")])
    /\ UNCHANGED <<collection, clock>>

\* ConcSearch reading, besides the collection, the base QAs of the requests
\* in flight.
ConcSearchSeesInFlight(p, fails) ==
    /\ procs[p].pc = "search"
    /\ LET inflight == {q \in Procs \ {p} : procs[q].op = "personal"}
           visible == IF inflight = {} THEN <<>>
                      ELSE <<procs[CHOOSE q \in inflight : TRUE].base_qa>>
       IN  Step(p, [procs[p] EXCEPT
                      !.rag_context =
                          search_by_member(collection, procs[p].input.member_id,
                                           PERSONAL_TOP_K, fails) \o visible,
                      !.storesBefore = {q \in Procs : procs[q].stored = "ok"},
                      !.trace = Append(@, "search_by_member"),
                      !.pc = Flow("personal", "search")])
    /\ UNCHANGED <<collection, clock>>

\* The retrieval returns what the collection holds at that moment.
ConcSearch(p, fails) ==
    /\ procs[p].pc = "search"
    /\ Step(p, [procs[p] EXCEPT
                  !.rag_context =
                      search_by_member(collection, procs[p].input.member_id,
                                       PERSONAL_TOP_K, fails),
                  !.storesBefore = {q \in Procs : procs[q].stored = "ok"},
                  !.trace = Append(@, "search_by_member"),
                  !.pc = Flow("personal", "search")])
    /\ UNCHANGED <<collection, clock>>

ConcGenerate(p, cand) ==
    /\ procs[p].pc = "gen"
    /\ Step(p, [procs[p] EXCEPT !.question = cand.question, !.level = cand.level,
                                !.trace = Append(@, "generate"),
                                !.pc = "probe"])
    /\ UNCHANGED <<collection, clock>>

\* The generator raises: the request ends with the error.
ConcGenerateRaises(p) ==
    /\ procs[p].pc = "gen"
    /\ Step(p, [procs[p] EXCEPT !.trace = Append(@, "generate_raised"),
                                !.pc = "error"])
    /\ UNCHANGED <<collection, clock>>

ConcProbe(p, distance, fails) ==
    /\ procs[p].pc = "probe"
    /\ LET me == procs[p]
           similarity == search_similar_questions(collection, me.input.member_id,
                                                  distance, fails)
           r == LoopCheck("personal", me.attempt, similarity,
                          me.regeneration_count, me.similarity_warning)
           leaves == r.brk \/ me.attempt + 1 >= MAX_REGENERATION
       IN  Step(p, [me EXCEPT
                      !.regeneration_count = r.regeneration_count,
                      !.similarity_warning = r.similarity_warning,
                      !.attempt = IF leaves THEN @ ELSE @ + 1,
                      !.trace = Append(@, "search_similar_questions"),
                      !.pc = IF leaves THEN Flow("personal", "loop") ELSE "gen"])
    /\ UNCHANGED <<collection, clock>>

\* store up to its second await: the embedding is created, and the id is
\* built from datetime.now() before the add is handed to the thread pool.
\* A failure of the embedding is caught: store returns False and the use
\* case raises.
ConcEmbed(p, fails) ==
    /\ procs[p].pc = "store"
    /\ LET me == procs[p]
       IN  IF fails
           THEN Step(p, [me EXCEPT !.stored = "failed", !.pc = "error",
                                   !.trace = Append(@, "store")])
           ELSE Step(p, [me EXCEPT
                           !.doc_id = <<me.base_qa.family_id, me.base_qa.member_id,
                                        clock>>,
                           !.pc = "add"])
    /\ UNCHANGED <<collection, clock>>

\* collection.add in the thread pool, and the rest of the request.  An add
\* that raises (transport, or ChromaDB rejecting an id it holds) makes store
\* return False; otherwise store returns True.
ConcAdd(p, fails) ==
    /\ procs[p].pc = "add"
    /\ LET me == procs[p]
       IN  IF fails
           THEN /\ Step(p, [me EXCEPT !.stored = "failed", !.pc = "error",
                                      !.trace = Append(@, "store")])
                /\ UNCHANGED collection
           ELSE /\ collection' = Add(collection, Vector(me.base_qa, me.doc_id[3]))
                /\ Step(p, [me EXCEPT !.stored = "ok", !.pc = "done",
                                      !.trace = Append(@, "store")])
    /\ UNCHANGED clock

\* POST members/delete arrives for member_id.
ConcDeleteRequest(p, member_id) ==
    /\ procs[p].pc = "idle"
    /\ Step(p, [procs[p] EXCEPT !.op = "delete", !.member_id = member_id,
                                !.pc = "scan"])
    /\ UNCHANGED <<collection, clock>>

\* delete_by_member, first await: collection.get of the member's ids; with
\* no id the call returns 0.
ConcScan(p, fails) ==
    /\ procs[p].pc = "scan"
    /\ LET me == procs[p]
           ids == MemberIds(collection, me.member_id)
       IN  IF fails
           THEN Step(p, [me EXCEPT !.result = Raised, !.pc = "error"])
           ELSE IF ids = <<>>
           THEN Step(p, [me EXCEPT !.result = Returned(0), !.pc = "done",
                                   !.left = WhereMember(collection, me.member_id)])
           ELSE Step(p, [me EXCEPT !.ids = ids, !.pc = "delete"])
    /\ UNCHANGED <<collection, clock>>

\* delete_by_member, second await: collection.delete of the scanned ids,
\* then the count is returned.
ConcDelete(p, fails) ==
    /\ procs[p].pc = "delete"
    /\ LET me == procs[p]
       IN  IF fails
           THEN /\ Step(p, [me EXCEPT !.result = Raised, !.pc = "error"])
                /\ UNCHANGED collection
           ELSE /\ collection' = DeleteIds(collection, me.ids)
                /\ Step(p, [me EXCEPT !.result = Returned(Len(me.ids)),
                                      !.pc = "done",
                                      !.left = WhereMember(collection', me.member_id)])
    /\ UNCHANGED clock

ConcNext ==
    \/ Tick
    \/ \E p \in Procs, req \in ConcRequests : ConcRequest(p, req)
    \/ \E p \in Procs, fails \in BOOLEAN : ConcSearch(p, fails)
    \/ \E p \in Procs, cand \in ConcCandidates : ConcGenerate(p, cand)
    \/ \E p \in Procs : ConcGenerateRaises(p)
    \/ \E p \in Procs, distance \in ConcDistances, fails \in BOOLEAN :
           ConcProbe(p, distance, fails)
    \/ \E p \in Procs, fails \in BOOLEAN : ConcEmbed(p, fails)
    \/ \E p \in Procs, fails \in BOOLEAN : ConcAdd(p, fails)
    \/ \E p \in Procs, m \in ConcMembers : ConcDeleteRequest(p, m)
    \/ \E p \in Procs, fails \in BOOLEAN : ConcScan(p, fails)
    \/ \E p \in Procs, fails \in BOOLEAN : ConcDelete(p, fails)

ConcSpec == ConcInit /\ [][ConcNext]_vars

\* ------------------------------------------------------------------------
\* Operations applied to one input at a time
\* ------------------------------------------------------------------------

\* Every variable but input and output.
pureVars == <<collection, clock, pc, kind, base_qa, rag_context, attempt,
              question, level, regeneration_count, similarity_warning, stored,
              response, trace, genLog, probeLog, probeScope, probeFailed,
              collection0, portCall, portResult, lastWrite, procs>>

\* The input is one of `inputs` and nothing has been applied to it.
PureInit(inputs) ==
    /\ input \in inputs
    /\ output = NoOutput
    /\ collection = <<>>
    /\ clock = 0
    /\ pc = "idle"
    /\ kind = "none"
    /\ base_qa = NoDoc
    /\ rag_context = <<>>
    /\ attempt = 0
    /\ question = <<>>
    /\ level = 0
    /\ regeneration_count = 0
    /\ similarity_warning = FALSE
    /\ stored = "unset"
    /\ response = NoResponse
    /\ trace = <<>>
    /\ genLog = <<>>
    /\ probeLog = <<>>
    /\ collection0 = <<>>
    /\ probeScope = <<>>
    /\ portCall = NoCall
    /\ portResult = NoResult
    /\ lastWrite = NoCall
    /\ probeFailed = <<>>
    /\ procs = NoProcs

\* ------------------------------------------------------------------------
\* QuestionLevel (domain/value_objects/question_level.py)
\* ------------------------------------------------------------------------

\* An exception of class `error` leaves the call.
RaisedError(error) == [raised |-> TRUE, error |-> error]

Digits == <<"0", "1", "2", "3", "4", "5", "6", "7", "8", "9">>

DigitValue(c) == (CHOOSE d \in 1..10 : Digits[d] = c) - 1

\* The number written by a sequence of digits.
RECURSIVE DigitsValue(_)
DigitsValue(text) ==
    IF text = <<>> THEN 0
    ELSE 10 * DigitsValue(SubSeq(text, 1, Len(text) - 1))
         + DigitValue(text[Len(text)])

\* Python values the LLM's JSON can carry as "level": int, bool, float (in
\* tenths), the floats inf and nan, strings (sequences of characters) and
\* None.
LevelChars == {"3", "7", "0", "-", " ", "x"}

LevelStrings ==
    {<<>>} \cup {<<a>> : a \in LevelChars}
           \cup {<<a, b>> : a \in LevelChars, b \in LevelChars}

LevelInputs ==
    {[type |-> "int", n |-> n] : n \in (0 - MaxLevelInput)..MaxLevelInput}
    \cup {[type |-> "bool", b |-> b] : b \in BOOLEAN}
    \cup {[type |-> "float", tenths |-> k] : k \in {0 - 15, 5, 20, 25, 39, 40, 45}}
    \cup {[type |-> "inf"], [type |-> "nan"], [type |-> "none"]}
    \cup {[type |-> "str", text |-> text] : text \in LevelStrings}

\* int(x) of a string: surrounding whitespace is dropped, a sign may lead,
\* and digits must follow.
IntOfStr(text) ==
    LET stripped == Strip(text)
        negative == stripped # <<>> /\ Head(stripped) = "-"
        digits == IF negative THEN Tail(stripped) ELSE stripped
    IN  IF digits # <<>> /\ \A i \in 1..Len(digits) : (\E d \in 1..10 : Digits[d] = digits[i])
        THEN Returned(IF negative THEN 0 - DigitsValue(digits)
                      ELSE DigitsValue(digits))
        ELSE RaisedError("ValueError")

\* int(x): floats are truncated towards zero, int(inf) raises OverflowError,
\* int(nan) and unparsable strings raise ValueError, int(None) TypeError.
PyInt(x) ==
    CASE x.type = "int"   -> Returned(x.n)
      [] x.type = "bool"  -> Returned(IF x.b THEN 1 ELSE 0)
      [] x.type = "float" -> Returned(IF x.tenths >= 0 THEN x.tenths \div 10
                                      ELSE 0 - ((0 - x.tenths) \div 10))
      [] x.type = "inf"   -> RaisedError("OverflowError")
      [] x.type = "nan"   -> RaisedError("ValueError")
      [] x.type = "str"   -> IntOfStr(x.text)
      [] x.type = "none"  -> RaisedError("TypeError")

\* QuestionLevel(value): __post_init__ raises ValueError unless
\* 1 <= value <= 4; the comparison itself raises TypeError for a string or
\* None.
QuestionLevel(x) ==
    CASE x.type \in {"str", "none"} -> RaisedError("TypeError")
      [] x.type \in {"inf", "nan"}  -> RaisedError("ValueError")
      [] x.type = "int"   -> (IF 1 <= x.n /\ x.n <= 4 THEN Returned([value |-> x])
                              ELSE RaisedError("ValueError"))
      [] x.type = "bool"  -> (IF x.b THEN Returned([value |-> x])
                              ELSE RaisedError("ValueError"))
      [] x.type = "float" -> (IF 10 <= x.tenths /\ x.tenths <= 40
                              THEN Returned([value |-> x])
                              ELSE RaisedError("ValueError"))

\* QuestionLevel.from_int: only ValueError and TypeError are caught.
from_int(x) ==
    LET level_int == PyInt(x)
    IN  IF level_int.raised
        THEN (IF level_int.error \in {"ValueError", "TypeError"}
              THEN QuestionLevel([type |-> "int", n |-> 2])
              ELSE level_int)
        ELSE IF 1 <= level_int.value /\ level_int.value <= 4
        THEN QuestionLevel([type |-> "int", n |-> level_int.value])
        ELSE QuestionLevel([type |-> "int", n |-> 2])

\* QuestionLevel.from_int(input) is called.
CallFromInt ==
    /\ output' = [op |-> "from_int", result |-> from_int(input)]
    /\ UNCHANGED input
    /\ UNCHANGED pureVars

\* QuestionLevel(value = input) is called.
CallQuestionLevel ==
    /\ output' = [op |-> "QuestionLevel", result |-> QuestionLevel(input)]
    /\ UNCHANGED input
    /\ UNCHANGED pureVars

LevelNext == CallFromInt \/ CallQuestionLevel

LevelSpec == PureInit(LevelInputs) /\ [][LevelNext]_vars

\* ------------------------------------------------------------------------
\* Startup (main.py lifespan, presentation/dependencies.py)
\* ------------------------------------------------------------------------

\* The steps of the startup hook, in statement order.
StartupSteps ==
    <<"write_check", "get_chroma_collection", "get_vector_store",
      "get_personal_generator", "get_family_generator", "get_summary_generator">>

\* A prompt template file: present with its system and user fields, absent,
\* or present without them.
TemplateStates == {"ok", "missing", "invalid"}

\* What the process finds when it boots: whether the persist directory can
\* be written, whether the ChromaDB collection and the OpenAI client can be
\* built, and the three prompt templates.
Environments ==
    [dir_writable : BOOLEAN, chroma_ok : BOOLEAN, openai_ok : BOOLEAN,
     personal_generate : TemplateStates, family_generate : TemplateStates,
     summary_headline : TemplateStates]

\* PromptLoader.load: FileNotFoundError or ValueError, or the prompt data.
load(template) ==
    CASE template = "missing" -> RaisedError("FileNotFoundError")
      [] template = "invalid" -> RaisedError("ValueError")
      [] OTHER                -> Returned(template)

\* What a step of the startup hook raises in environment env, if anything.
StepResult(env, step) ==
    CASE step = "write_check" ->
             (IF env.dir_writable THEN Returned(step)
              ELSE RaisedError("RuntimeError"))
      [] step = "get_chroma_collection" ->
             (IF env.chroma_ok THEN Returned(step) ELSE RaisedError("Exception"))
      [] step = "get_vector_store" ->
             (IF env.openai_ok THEN Returned(step) ELSE RaisedError("Exception"))
      [] step = "get_personal_generator" -> load(env.personal_generate)
      [] step = "get_family_generator" -> load(env.family_generate)
      [] step = "get_summary_generator" -> load(env.summary_headline)

\* The steps that run: all of them, or those up to the first that raises.
Completed(env) ==
    LET failing == {i \in 1..Len(StartupSteps) : StepResult(env, StartupSteps[i]).raised}
    IN  IF failing = {} THEN Len(StartupSteps)
        ELSE (CHOOSE i \in failing : \A j \in failing : i <= j) - 1

\* lifespan with an except clause that logs the error and does not re-raise.
lifespanSwallows ==
    /\ pc = "idle"
    /\ trace' = SubSeq(StartupSteps, 1, Completed(input))
    /\ pc' = "serving"
    /\ output' = NoOutput
    /\ UNCHANGED <<input, collection, clock, kind, base_qa, rag_context, attempt,
                   question, level, regeneration_count, similarity_warning, stored,
                   response, genLog, probeLog, probeScope, probeFailed,
                   collection0, portCall, portResult, lastWrite, procs>>

\* The startup part of lifespan: the steps run in order; the first error is
\* logged and re-raised, which aborts the startup; otherwise the hook yields
\* and the application serves.
lifespan ==
    /\ pc = "idle"
    /\ trace' = SubSeq(StartupSteps, 1, Completed(input))
    /\ IF Completed(input) = Len(StartupSteps)
       THEN /\ pc' = "serving"
            /\ output' = NoOutput
       ELSE /\ pc' = "aborted"
            /\ output' = StepResult(input, StartupSteps[Completed(input) + 1])
    /\ UNCHANGED <<input, collection, clock, kind, base_qa, rag_context, attempt,
                   question, level, regeneration_count, similarity_warning, stored,
                   response, genLog, probeLog, probeScope, probeFailed,
                   collection0, portCall, portResult, lastWrite, procs>>

\* A request is answered; requests are routed only after the startup hook
\* has yielded.
ServeRequest(status) ==
    /\ pc = "serving"
    /\ response' = [status |-> status]
    /\ UNCHANGED <<input, output, pc, trace, collection, clock, kind, base_qa,
                   rag_context, attempt, question, level, regeneration_count,
                   similarity_warning, stored, genLog, probeLog, probeScope,
                   probeFailed, collection0, portCall, portResult, lastWrite,
                   procs>>

StartupNext ==
    \/ lifespan
    \/ \E status \in {200, HTTP_BAD_REQUEST, HTTP_ERROR} : ServeRequest(status)

StartupSpec == PureInit(Environments) /\ [][StartupNext]_vars

\* ------------------------------------------------------------------------
\* Rendering a QADocument and reading it back
\* ------------------------------------------------------------------------

\* Texts of up to two tokens: a word, a blank, and the two markers of the
\* embedding text.
Texts ==
    LET tokens == {"q", Space, QuestionMarker, AnswerMarker}
    IN  {<<>>} \cup {<<a>> : a \in tokens}
               \cup {<<a, b>> : a \in tokens, b \in tokens}

\* QADocuments of one member whose question, answer and role label range
\* over the texts.
TextDocs ==
    {QADocument("F1", "M1", r, q, a, [t |-> 1, aware |-> FALSE]) :
         r \in {<<"dad">>, <<QuestionMarker>>}, q \in Texts, a \in Texts}

\* The document is rendered as store does, and the rendered text is parsed
\* and read back as an entity as the searches and scans do.
RenderAndParse ==
    /\ output' = [document |-> _to_embedding_text(input),
                  parsed |-> _parse_embedding_text(_to_embedding_text(input)),
                  entity |-> ToEntity(Vector(input, 1))]
    /\ UNCHANGED input
    /\ UNCHANGED pureVars

TextSpec == PureInit(TextDocs) /\ [][RenderAndParse]_vars

\* ------------------------------------------------------------------------
\* The novelty loop run over a given sequence of probe similarities
\* ------------------------------------------------------------------------

\* What a loop copy has done when it is left.
LoopResult(generator_calls, probe_calls, att, rc, warn) ==
    [generator_calls |-> generator_calls, probe_calls |-> probe_calls,
     attempt |-> att, regeneration_count |-> rc, similarity_warning |-> warn]

\* `for attempt in range(MAX_REGENERATION)` of loop copy k from attempt `att`
\* on, the probe of attempt i answering sims[i + 1]: each attempt calls the
\* generator, then the probe, then takes the decision of the copy.  A copy
\* that asks for a probe beyond the given ones stops with that probe
\* unanswered.
RECURSIVE RunLoop(_, _, _, _, _)
RunLoop(k, sims, att, rc, warn) ==
    IF att >= MAX_REGENERATION
    THEN LoopResult(att, att, att - 1, rc, warn)
    ELSE IF att >= Len(sims)
    THEN LoopResult(att + 1, att, att, rc, warn)
    ELSE LET r == LoopCheck(k, att, sims[att + 1], rc, warn)
         IN  IF r.brk
             THEN LoopResult(att + 1, att + 1, att, r.regeneration_count,
                             r.similarity_warning)
             ELSE RunLoop(k, sims, att + 1, r.regeneration_count,
                          r.similarity_warning)

\* One use case for each of the three copies of the loop: the inline loop,
\* _generate_with_retry and _generate_for_target_with_retry.
LoopCopies == {"personal", "personal_rag", "recent"}

\* The loop of the execution has been left by a break.
LoopLeft ==
    /\ probeLog # <<>>
    /\ pc \notin {"gen", "probe"}
    /\ \A i \in 1..Len(trace) : trace[i] # "generate_raised"

\* ------------------------------------------------------------------------
\* Observations on an execution
\* ------------------------------------------------------------------------

Retrievals == {"search_by_member", "search_by_family"}

GeneratorCalls == {"generate", "generate_raised"}

\* Positions in the trace of the calls named in `names`.
Calls(names) == {i \in 1..Len(trace) : trace[i] \in names}

GeneratorInvocations == Cardinality(Calls(GeneratorCalls))

LastCall == IF trace = <<>> THEN "none" ELSE trace[Len(trace)]

\* The regeneration loop of the execution has been left by a break.
LoopExited ==
    \/ pc \in {"store", "done"}
    \/ pc = "error" /\ LastCall = "store"

AllProbesHigh == \A i \in 1..Len(probeLog) : probeLog[i] >= SIMILARITY_THRESHOLD

LastProbe == probeLog[Len(probeLog)]

\* Terminal states of the novelty state machine.
Accept == LastProbe < SIMILARITY_THRESHOLD /\ ~similarity_warning

AcceptWithWarning ==
    /\ Len(probeLog) = MAX_REGENERATION
    /\ LastProbe >= SIMILARITY_THRESHOLD
    /\ similarity_warning

\* ------------------------------------------------------------------------
\* Claims
\* ------------------------------------------------------------------------

C2_BoundedAttemptsTerminalState ==
    /\ GeneratorInvocations <= MAX_REGENERATION
    /\ Len(probeLog) <= GeneratorInvocations
    /\ LoopExited =>
           /\ GeneratorInvocations >= 1
           /\ Len(probeLog) = GeneratorInvocations
           /\ Accept \/ AcceptWithWarning

\* An execution that used all attempts and ended with the warning.
C2_Witness ==
    /\ pc = "done"
    /\ GeneratorInvocations = MAX_REGENERATION
    /\ AcceptWithWarning

\* C3: on return the regeneration_count of the output metadata equals the
\* number of generator invocations of the execution minus 1.
C3_RegenerationCountIsInvocationsMinusOne ==
    pc = "done" =>
        /\ output.metadata.regeneration_count = GeneratorInvocations - 1
        /\ response.metadata.regeneration_count = GeneratorInvocations - 1

\* A returned execution with two regenerations.
C3_Witness ==
    /\ pc = "done"
    /\ GeneratorInvocations = 3
    /\ output.metadata.regeneration_count = 2

\* C4: on return similarity_warning is true if and only if every similarity
\* probed during the execution was >= SIMILARITY_THRESHOLD.
C4_WarningIffAllProbesHigh ==
    pc = "done" =>
        /\ probeLog # <<>>
        /\ output.metadata.similarity_warning <=> AllProbesHigh
        /\ response.metadata.similarity_warning <=> AllProbesHigh

\* A returned execution flagged with the warning.
C4_Witness ==
    /\ pc = "done"
    /\ output.metadata.similarity_warning
    /\ Len(probeLog) = MAX_REGENERATION
    /\ AllProbesHigh

\* C5: a probe below the threshold at attempt k ends the loop at once: it is
\* the last probe, no generator call follows it, and the loop yields the
\* candidate of attempt k with regeneration_count k - 1 and no warning, which
\* is what a returning execution reports.  A probe exactly at the threshold
\* does not accept: the loop is left on it only at the last attempt, with the
\* warning.
C5_AcceptBelowThreshold ==
    /\ \A k \in 1..Len(probeLog) :
           probeLog[k] < SIMILARITY_THRESHOLD =>
               /\ k = Len(probeLog)
               /\ GeneratorInvocations = k
               /\ LoopExited
               /\ question = genLog[k].question
               /\ level = genLog[k].level
               /\ regeneration_count = k - 1
               /\ ~similarity_warning
    /\ (pc = "done" /\ LastProbe < SIMILARITY_THRESHOLD) =>
           /\ output.question = genLog[Len(probeLog)].question
           /\ output.level = genLog[Len(probeLog)].level
           /\ output.metadata.regeneration_count = Len(probeLog) - 1
           /\ ~output.metadata.similarity_warning
    /\ (LoopExited /\ LastProbe = SIMILARITY_THRESHOLD) =>
           /\ Len(probeLog) = MAX_REGENERATION
           /\ similarity_warning

\* An execution whose first probe was exactly the threshold and whose
\* second probe was below it, returning the second candidate.
C5_Witness ==
    /\ pc = "done"
    /\ Len(probeLog) = 2
    /\ probeLog[1] = SIMILARITY_THRESHOLD
    /\ probeLog[2] < SIMILARITY_THRESHOLD
    /\ genLog[1] # genLog[2]
    /\ output.question = genLog[2].question

\* C6: when all MAX_REGENERATION probes are >= the threshold the loop ends
\* without an error, yielding the question and the level of the last
\* generator invocation, regeneration_count M - 1 and the warning; a
\* returning execution reports these (an error can then only come from store).
C6_ExhaustedReturnsLastCandidate ==
    (Len(probeLog) = MAX_REGENERATION /\ AllProbesHigh) =>
        /\ LoopExited
        /\ question = genLog[MAX_REGENERATION].question
        /\ level = genLog[MAX_REGENERATION].level
        /\ regeneration_count = MAX_REGENERATION - 1
        /\ similarity_warning
        /\ pc = "error" => stored = "failed"
        /\ kind = "recent" => pc = "done"
        /\ pc = "done" =>
               /\ response.status = 200
               /\ response.content = genLog[MAX_REGENERATION].question
               /\ response.level = genLog[MAX_REGENERATION].level
               /\ output.question = genLog[MAX_REGENERATION].question
               /\ output.level = genLog[MAX_REGENERATION].level
               /\ output.metadata.regeneration_count = MAX_REGENERATION - 1
               /\ output.metadata.similarity_warning

\* A returned execution whose probes were all high and whose last candidate
\* differs from the first.
C6_Witness ==
    /\ pc = "done"
    /\ Len(probeLog) = MAX_REGENERATION
    /\ AllProbesHigh
    /\ genLog[1] # genLog[MAX_REGENERATION]
    /\ response.status = 200

\* C7: a Personal or Family RAG execution that returns a response has
\* invoked store exactly once, whatever the number of regenerations; the
\* collection has grown by exactly one vector.
C7_StoreExactlyOnce ==
    (pc = "done" /\ kind \in RagKinds) =>
        /\ Cardinality(Calls({"store"})) = 1
        /\ stored = "ok"
        /\ Len(collection) = Len(collection0) + 1

\* A family RAG execution that returned after two regenerations.
C7_Witness ==
    /\ pc = "done"
    /\ kind = "family_rag"
    /\ GeneratorInvocations = MAX_REGENERATION
    /\ Cardinality(Calls({"store"})) = 1

C9_RecentNeverStores ==
    kind = "recent" =>
        /\ Calls({"store"}) = {}
        /\ stored = "unset"
        /\ collection = collection0
        /\ base_qa = NoDoc

\* A Family Recent execution over a non-empty collection that returned with
\* the warning.
C9_Witness ==
    /\ kind = "recent"
    /\ pc = "done"
    /\ collection # <<>>
    /\ rag_context # <<>>
    /\ output.metadata.similarity_warning

\* The retrieval of the use case serving the request, over collection coll.
RetrievalOver(coll, fails) ==
    IF kind \in {"personal", "personal_rag"}
    THEN search_by_member(coll, input.member_id, PERSONAL_TOP_K, fails)
    ELSE search_by_family(coll, input.family_id, FAMILY_TOP_K, fails)

RetrievedQuestions == {rag_context[i].question : i \in 1..Len(rag_context)}

\* C11 (as stated): in every returning Personal/Family RAG execution the
\* question returned to the caller is not the question of any QA record of
\* the execution's retrieval result.
C11_ReturnedQuestionNotRetrieved ==
    (pc = "done" /\ kind \in RagKinds) => output.question \notin RetrievedQuestions

\* C11: in every returning Personal/Family RAG execution the question
\* returned to the caller is the candidate of the last generator invocation,
\* whatever the retrieval result holds, and unless the response carries
\* similarity_warning the last novelty probe was below the threshold.
C11_ReturnedQuestionIsLastCandidate ==
    (pc = "done" /\ kind \in RagKinds) =>
        /\ output.question = genLog[Len(genLog)].question
        /\ response.content = genLog[Len(genLog)].question
        /\ output.metadata.rag_count = Len(rag_context)
        /\ ~output.metadata.similarity_warning => LastProbe < SIMILARITY_THRESHOLD
        /\ output.metadata.similarity_warning => Len(genLog) = MAX_REGENERATION

\* A RAG execution that returned, without the warning, a question that a
\* QA record of its retrieval result carries.
C11_Witness ==
    /\ pc = "done"
    /\ kind \in RagKinds
    /\ ~output.metadata.similarity_warning
    /\ output.question \in RetrievedQuestions
    /\ output.question # input.base_question

RequestRecord(req) ==
    QADocument(req.familyId, req.memberId, req.roleLabel, req.baseQuestion,
               req.baseAnswer, ParseRequestTime(req.answeredAt))

\* The record of a store call of the execution: base_qa, which a successful
\* store appends as the latest vector.
StoreCalled == kind \in RagKinds /\ Calls({"store"}) # {}

\* C13 (as stated): the record passed to store by a Personal/Family RAG
\* execution has the request's familyId, memberId, roleLabel, baseQuestion,
\* baseAnswer and answeredAt.
C13_StoredRecordEqualsRequest ==
    StoreCalled =>
        \E req \in RagRequests : input = RagInput(req) /\ base_qa = RequestRecord(req)

\* C13: the record passed to store by a Personal/Family RAG execution has
\* the request's familyId, memberId, baseQuestion, baseAnswer and parsed
\* answeredAt.  Its role_label is the request's roleLabel in
\* GeneratePersonalQuestionUseCase and GenerateFamilyQuestionUseCase; in
\* RAGQuestionUseCase.execute it is the role_label of the member's most
\* recent stored record, or the default label when there is none.
C13_StoredRecordFromRequest ==
    StoreCalled =>
        \E req \in RagRequests :
            /\ input = RagInput(req)
            /\ \/ kind \in InlineKinds /\ base_qa = RequestRecord(req)
               \/ /\ kind \notin InlineKinds
                  /\ \E fails \in BOOLEAN :
                         base_qa = [RequestRecord(req) EXCEPT !.role_label =
                                       _get_role_label(collection0, req.memberId, fails)]
            /\ stored = "ok" =>
                   /\ collection[Len(collection)].metadata =
                          [family_id |-> req.familyId, member_id |-> req.memberId,
                           role_label |-> base_qa.role_label,
                           answered_at |-> IsoFormat(ParseRequestTime(req.answeredAt))]
                   /\ collection[Len(collection)].document = _to_embedding_text(base_qa)

\* A PersonalRAG execution that stored the member's earlier role label
\* instead of the one its request carries.
C13_Witness ==
    /\ kind = "personal_rag"
    /\ pc = "done"
    /\ stored = "ok"
    /\ base_qa.role_label # input.role_label
    /\ base_qa.role_label # DefaultRoleLabel

\* C14: every novelty probe of a Family RAG execution is scoped to the
\* member_id of the request (the answering member), never to its family_id
\* or to another member, and every probe of a Family Recent execution is
\* scoped to target_member_id; a probed member without vectors yields
\* similarity 0 whatever the rest of the family has stored.
C14_ProbeScopedToMember ==
    /\ Len(probeScope) = Len(probeLog)
    /\ kind \in {"family", "family_rag"} =>
           \A i \in 1..Len(probeScope) :
               /\ probeScope[i] = input.member_id
               /\ probeScope[i] # input.family_id
    /\ kind = "recent" =>
           \A i \in 1..Len(probeScope) :
               /\ probeScope[i] = input.target_member_id
               /\ probeScope[i] # input.family_id
    /\ kind \in {"family", "family_rag", "recent"} =>
           \A i \in 1..Len(probeScope) :
               WhereMember(collection0, probeScope[i]) = <<>> => probeLog[i] = 0

\* A Family RAG execution whose retrieval found records of the family while
\* the answering member had none: its probe ran over no vector.
C14_Witness ==
    /\ kind = "family"
    /\ pc = "done"
    /\ rag_context # <<>>
    /\ probeScope = <<input.member_id>>
    /\ WhereMember(collection0, input.member_id) = <<>>
    /\ probeLog = <<0>>

\* The latest port call was delete_by_member and it returned.
DeleteReturned == portCall.op = "delete_by_member" /\ ~portResult.raised

\* The vectors of coll that member_id does not own.
OwnedByOthers(coll, member_id) ==
    SelectSeq(coll, LAMBDA v : v.metadata.member_id # member_id)

\* C15: once delete_by_member(m) has returned, whatever was stored before,
\* search_by_member(m, q, k) returns the empty list for every k: in the
\* state the delete leaves, and in every search for m made while that
\* delete is the latest change of the collection.
C15_SearchEmptyAfterDelete ==
    /\ DeleteReturned =>
           \A k \in TopKs, fails \in BOOLEAN :
               search_by_member(collection, portCall.member_id, k, fails) = <<>>
    /\ (/\ portCall.op = "search_by_member"
        /\ lastWrite.op = "delete_by_member"
        /\ lastWrite.member_id = portCall.member_id) => portResult.value = <<>>

\* A search for a member whose two records the latest delete removed, while
\* records of another member remain.
C15_Witness ==
    /\ portCall.op = "search_by_member"
    /\ ~portCall.fails
    /\ portCall.top_k = PERSONAL_TOP_K
    /\ lastWrite.op = "delete_by_member"
    /\ lastWrite.member_id = portCall.member_id
    /\ lastWrite.value = 2
    /\ collection # <<>>
    /\ portResult.value = <<>>

\* C16: delete_by_member(m), when it returns, has removed exactly the
\* records whose metadata member_id is m and returns their number (0 when m
\* owns none); the records of every other member are as they were, in the
\* same order.
C16_DeleteRemovesExactlyOwned ==
    DeleteReturned =>
        /\ collection = OwnedByOthers(collection0, portCall.member_id)
        /\ portResult.value = Len(WhereMember(collection0, portCall.member_id))
        /\ portResult.value = Len(collection0) - Len(collection)
        /\ WhereMember(collection0, portCall.member_id) = <<>> =>
               portResult.value = 0 /\ collection = collection0

\* A delete that removed a record of a family of which another member's
\* record remains.
C16_Witness ==
    /\ DeleteReturned
    /\ portResult.value >= 1
    /\ \E i, j \in 1..Len(collection0) :
           /\ collection0[i].metadata.member_id = portCall.member_id
           /\ collection0[j].metadata.member_id # portCall.member_id
           /\ collection0[i].metadata.family_id = collection0[j].metadata.family_id
    /\ collection # <<>>

\* C17: a members/delete request for a member without stored records is
\* answered 400 and leaves the collection as it was; a request that deleted
\* records is answered 200 with deletedCount > 0; a transport error is
\* answered neither way (500).
C17_DeleteResponse ==
    portCall.op = "delete_by_member" =>
        /\ (~portResult.raised /\ WhereMember(collection0, portCall.member_id) = <<>>) =>
               /\ response.status = HTTP_BAD_REQUEST
               /\ collection = collection0
        /\ (~portResult.raised /\ WhereMember(collection0, portCall.member_id) # <<>>) =>
               /\ response.status = 200
               /\ response.deletedCount > 0
               /\ response.deletedCount = Len(collection0) - Len(collection)
        /\ portResult.raised =>
               /\ portCall.fails
               /\ response.status = HTTP_ERROR
               /\ response.status # HTTP_BAD_REQUEST
        /\ response.status = HTTP_BAD_REQUEST =>
               ~portResult.raised /\ portResult.value = 0

\* A second members/delete request for a member whose records an earlier
\* request deleted: 400, the remaining records untouched.
C17_Witness ==
    /\ portCall.op = "delete_by_member"
    /\ response.status = HTTP_BAD_REQUEST
    /\ lastWrite.op = "delete_by_member"
    /\ lastWrite.member_id = portCall.member_id
    /\ collection # <<>>
    /\ collection = collection0

\* C18 (as stated): get_qa_by_family_in_range(f, a, b) returns exactly the
\* stored records of family f with a <= answered_at <= b, none missing and
\* none extra, in ascending order of answered_at, whether the stored
\* answered_at carries an offset or not.
C18_RangeQueryExact ==
    (portCall.op = "get_qa_by_family_in_range" /\ ~portCall.fails) =>
        LET got == portResult.value
            expected ==
                SelectSeq(_to_domain_entities(WhereFamily(collection, portCall.family_id)),
                          LAMBDA e : InRange(portCall.start, e.answered_at, portCall.end))
            Count(seq, e) == Cardinality({i \in 1..Len(seq) : seq[i] = e})
        IN  /\ Len(got) = Len(expected)
            /\ \A i \in 1..Len(expected) :
                   Count(got, expected[i]) = Count(expected, expected[i])
            /\ \A i, j \in 1..Len(got) :
                   i < j => got[i].answered_at.t <= got[j].answered_at.t

\* C19 (as stated): search_similar_questions returns a similarity within
\* [0, 1]: 1 - distance of the member's nearest vector clamped to [0, 1],
\* and 0 when the member has no vectors.
C19_SimilarityInUnitInterval ==
    portCall.op = "search_similar_questions" =>
        LET raw == 100 - portCall.distance
            clamped == IF raw < 0 THEN 0 ELSE IF raw > 100 THEN 100 ELSE raw
        IN  /\ portResult.value \in 0..100
            /\ ~portCall.fails =>
                   portResult.value =
                       (IF WhereMember(collection, portCall.member_id) = <<>>
                        THEN 0 ELSE clamped)

\* The search and scan operations of the port.
ListOperations ==
    {"search_by_member", "search_by_family", "get_recent_questions_by_member",
     "get_recent_questions_by_family", "get_qa_by_family_in_range"}

\* C20: on a transport or embedding failure the search and scan operations
\* return the empty list without raising, store returns false and adds
\* nothing, and delete_by_member raises to its caller, deleting nothing.
C20_FailureSemantics ==
    (portCall.op # "none" /\ portCall.fails) =>
        /\ portCall.op \in ListOperations =>
               ~portResult.raised /\ portResult.value = <<>>
        /\ portCall.op = "store" =>
               /\ ~portResult.raised
               /\ portResult.value = FALSE
               /\ collection = collection0
        /\ portCall.op = "delete_by_member" =>
               /\ portResult.raised
               /\ collection = collection0
        /\ collection = collection0

\* A family search that failed over a family with stored records.
C20_Witness ==
    /\ portCall.op = "search_by_family"
    /\ portCall.fails
    /\ WhereFamily(collection, portCall.family_id) # <<>>
    /\ portResult = Returned(<<>>)

\* C21 (as stated): each successful store is an append under a new vector
\* id: any two store calls, including two for the same family_id and
\* member_id issued concurrently or within the same millisecond, obtain
\* distinct ids, and both records are present afterwards.
C21_StoresObtainDistinctIds ==
    \A p, q \in Procs :
        (p # q /\ procs[p].stored = "ok" /\ procs[q].stored = "ok") =>
            /\ procs[p].doc_id # procs[q].doc_id
            /\ Cardinality({i \in 1..Len(collection) :
                               collection[i].id \in {procs[p].doc_id,
                                                     procs[q].doc_id}}) = 2

\* Request p's retrieval result holds the base Q/A of request q, as it is
\* read back from the collection.
SeesBaseQaOf(p, q) ==
    \E i \in 1..Len(procs[p].rag_context) :
        procs[p].rag_context[i] = ToEntity(Vector(procs[q].base_qa, 0))

\* Positions in the trace of request p of the calls named in `names`.
CallsOf(p, names) ==
    {i \in 1..Len(procs[p].trace) : procs[p].trace[i] \in names}

DenotesInteger(x) ==
    \/ x.type \in {"int", "bool"}
    \/ x.type = "float" /\ x.tenths % 10 = 0
    \/ x.type = "str" /\ ~IntOfStr(x.text).raised

\* C23 (as stated): QuestionLevel.from_int is total and never raises: for a
\* whole number L in 1..4 it returns level L, and for every out-of-range or
\* non-integer input it returns level 2; the constructor rejects any value
\* outside 1..4.
C23_FromIntTotal ==
    /\ output # NoOutput /\ output.op = "from_int" =>
           /\ ~output.result.raised
           /\ output.result.value.value.type = "int"
           /\ IF DenotesInteger(input) /\ PyInt(input).value \in 1..4
              THEN output.result.value.value.n = PyInt(input).value
              ELSE output.result.value.value.n = 2
    /\ output # NoOutput /\ output.op = "QuestionLevel" =>
           /\ (input.type = "int" /\ input.n \notin 1..4) => output.result.raised
           /\ ~output.result.raised => PyInt(output.result.value.value).value \in 1..4

\* C24: the startup hook runs the persist-directory write check, builds the
\* collection and the vector store, both question generators and the
\* summary generator (loading their prompt templates), in this order,
\* before any request is served; when one of these steps fails, a missing
\* prompt template included, the startup aborts with that error after the
\* steps before it, and the application neither serves nor answers.
C24_StartupFailsFast ==
    LET failing == {i \in 1..Len(StartupSteps) :
                       StepResult(input, StartupSteps[i]).raised}
    IN  /\ (pc = "serving" \/ response # NoResponse) =>
               /\ trace = StartupSteps
               /\ failing = {}
               /\ pc = "serving"
        /\ (pc # "idle" /\ failing # {}) =>
               /\ pc = "aborted"
               /\ output.raised
               /\ response = NoResponse
               /\ \A i \in failing : Len(trace) < i
               /\ \E i \in failing : Len(trace) = i - 1
               /\ trace = SubSeq(StartupSteps, 1, Len(trace))

\* The family generator's template is missing: the startup has aborted with
\* FileNotFoundError after the personal generator was built.
C24_Witness ==
    /\ pc = "aborted"
    /\ input.family_generate = "missing"
    /\ output = RaisedError("FileNotFoundError")
    /\ trace = SubSeq(StartupSteps, 1, 4)

\* C25 (as stated): get_recent_questions_by_family(f, n) returns only
\* records of family f and, for each member having records in f, exactly
\* min(n, that member's record count) records, which are that member's n
\* most recent by answered_at, in descending order within the member's
\* group.
C25_RecentByFamilyPerMember ==
    (portCall.op = "get_recent_questions_by_family" /\ ~portCall.fails) =>
        LET got == portResult.value
            family == _to_domain_entities(WhereFamily(collection, portCall.family_id))
            Of(seq, m) == SelectSeq(seq, LAMBDA e : e.member_id = m)
            Newer(seq, t) == Cardinality({i \in 1..Len(seq) : seq[i].answered_at.t > t})
            Min(a, b) == IF a < b THEN a ELSE b
        IN  /\ \A i \in 1..Len(got) : got[i].family_id = portCall.family_id
            /\ \A m \in PortMembers :
                   /\ Len(Of(got, m)) = Min(portCall.limit, Len(Of(family, m)))
                   /\ \A i \in 1..Len(Of(got, m)) :
                          \E k \in 1..Len(family) : family[k] = Of(got, m)[i]
                   /\ \A i, j \in 1..Len(Of(got, m)) :
                          i < j => Of(got, m)[i].answered_at.t
                                       >= Of(got, m)[j].answered_at.t
                   /\ \A t \in 0..5 :
                          Newer(Of(got, m), t)
                              = Min(portCall.limit, Newer(Of(family, m), t))

C27_ProbeFailureAcceptsCandidate ==
    \A i \in 1..Len(probeFailed) :
        probeFailed[i] =>
            /\ probeLog[i] = 0
            /\ Len(probeLog) = i
            /\ Len(genLog) = i
            /\ GeneratorInvocations = i
            /\ question = genLog[i].question
            /\ regeneration_count = i - 1
            /\ ~similarity_warning
            /\ LoopExited
            /\ pc = "error" => LastCall = "store"
            /\ pc = "done" =>
                   /\ response.status = 200
                   /\ output.question = genLog[i].question
                   /\ ~output.metadata.similarity_warning
                   /\ output.metadata.regeneration_count = i - 1

\* The probe of the second attempt failed over a member with stored
\* questions, after a first probe above the threshold: the second candidate
\* was returned without warning.
C27_Witness ==
    /\ pc = "done"
    /\ Len(probeFailed) = 2
    /\ probeFailed[2]
    /\ probeLog[1] >= SIMILARITY_THRESHOLD
    /\ WhereMember(collection0, probeScope[2]) # <<>>
    /\ response.status = 200
    /\ ~output.metadata.similarity_warning

\* C28 (as stated): delete_by_member(m) is atomic with respect to a
\* concurrent store for m: once it has returned, no record of m whose store
\* completed before that return remains in the collection, even when the
\* store interleaves between the id scan and the delete.
C28_DeleteAtomicAgainstStore ==
    \A p \in Procs :
        (procs[p].op = "delete" /\ procs[p].pc = "done") => procs[p].left = <<>>

\* C29 (as stated): rendering and parsing round-trip: for every QA record
\* _parse_embedding_text(_to_embedding_text(doc)) = (doc.question,
\* doc.answer), so a record read back carries the question and the answer
\* that were stored, for all question, answer and role_label texts, those
\* containing the markers included.
C29_RenderParseRoundTrip ==
    output # NoOutput =>
        /\ output.parsed = <<input.question, input.answer>>
        /\ output.entity.question = input.question
        /\ output.entity.answer = input.answer

\* C30: the three copies of the novelty loop are equivalent: over the
\* sequence of probe similarities of any execution whose loop has been left,
\* each copy makes the generator and probe calls the execution made, keeps
\* the candidate of the same attempt and ends with the same
\* regeneration_count and similarity_warning.
C30_LoopCopiesEquivalent ==
    LoopLeft =>
        /\ question = genLog[attempt + 1].question
        /\ level = genLog[attempt + 1].level
        /\ \A k \in LoopCopies :
               RunLoop(k, probeLog, 0, 0, FALSE) =
                   LoopResult(Len(genLog), Len(probeLog), attempt,
                              regeneration_count, similarity_warning)

\* An execution of the template-method copy whose loop ended on the last
\* attempt with the warning, after two regenerations.
C30_Witness ==
    /\ LoopLeft
    /\ kind = "personal_rag"
    /\ similarity_warning
    /\ regeneration_count = MAX_REGENERATION - 1
    /\ Len(genLog) = MAX_REGENERATION

====
